---- MODULE Spec2Model ----
(***************************************************************************)
(* A model of the treap of treap_sort.py (TreapNode, Treap), of its set    *)
(* algebra, and of the two sort adapters treap_sort and heap_sort.         *)
(*                                                                         *)
(* A Python value is modelled as a tuple of integers compared the way      *)
(* Python compares tuples (lexicographically); a plain number v is the     *)
(* one-element tuple <<v>>.  A node is the tuple                           *)
(* <<value, priority, left, right>> and the absent node (None) is <<>>.    *)
(* A raised ValueError is the one-element tuple <<"ValueError">>.          *)
(***************************************************************************)
EXTENDS Integers, Sequences, FiniteSets, TLC

\* ---------------------------------------------------------------- bounds
MaxVal == 2      \* tree values are <<1>> .. <<MaxVal>>
MaxPri == 2      \* random() draws are 1 .. MaxPri
MaxNodes == 4    \* insert/add grow the two treaps to MaxNodes nodes together
MaxPair == 3     \* the operands of a call on node objects hold MaxPair nodes together
MaxKey == 3      \* the trees handed to isdisjoint hold <<1>> .. <<MaxKey>>
MaxItems == 3    \* length of the sequence handed to the sort adapters
MaxItem == 2     \* the items handed to the sort adapters are 0 .. MaxItem

VARIABLES a, b, out, items, key, reverse, pc, ctor, root, tout, heap, hout

vars == <<a, b, out, items, key, reverse, pc, ctor, root, tout, heap, hout>>
treapVars == <<a, b, out>>
sortVars == <<items, key, reverse, pc, ctor, root, tout, heap, hout>>

\* ------------------------------------------------------- values and nodes
None == <<>>
Error == <<"ValueError">>
IsNone(t) == Len(t) = 0
IsError(r) == Len(r) = 1

Min2(m, n) == IF m < n THEN m ELSE n

\* x < y, x > y and x == y on Python values
Lt(x, y) ==
    \/ \E i \in 1..Min2(Len(x), Len(y)) :
          x[i] < y[i] /\ \A j \in 1..(i - 1) : x[j] = y[j]
    \/ Len(x) < Len(y) /\ \A j \in 1..Len(x) : x[j] = y[j]
Gt(x, y) == Lt(y, x)
Eq(x, y) == x = y

\* random(): a fresh priority; the forced priority 0.0 of split and join
\* is below every draw
Priorities == 1..MaxPri
Zero == 0

TreapNode(v, p, l, r) == <<v, p, l, r>>
value(n) == n[1]
priority(n) == n[2]
left(n) == n[3]
right(n) == n[4]

\* value in (node or ())
RECURSIVE Contains(_, _)
Contains(self, v) ==
    IF IsNone(self) THEN FALSE
    ELSE \/ Eq(v, value(self))
         \/ (Lt(v, value(self)) /\ Contains(left(self), v))
         \/ (Gt(v, value(self)) /\ Contains(right(self), v))

\* in-order traversal over the nodes, as <<value, priority>> pairs
RECURSIVE Iter(_)
Iter(self) ==
    IF IsNone(self) THEN <<>>
    ELSE Iter(left(self)) \o <<(<<value(self), priority(self)>>)>> \o Iter(right(self))

\* list(node.values()): the in-order values
RECURSIVE values(_)
values(self) ==
    IF IsNone(self) THEN <<>>
    ELSE values(left(self)) \o <<value(self)>> \o values(right(self))

\* reversed(node.values())
RECURSIVE reversed_values(_)
reversed_values(self) ==
    IF IsNone(self) THEN <<>>
    ELSE reversed_values(right(self)) \o <<value(self)>> \o reversed_values(left(self))

\* len(node or ())
RECURSIVE len(_)
len(self) ==
    IF IsNone(self) THEN 0 ELSE 1 + len(left(self)) + len(right(self))

rotate_left(self) ==
    LET R == right(self)
        X == left(R)
    IN TreapNode(value(R), priority(R),
                 TreapNode(value(self), priority(self), left(self), X),
                 right(R))

rotate_right(self) ==
    LET L == left(self)
        Y == right(L)
    IN TreapNode(value(L), priority(L),
                 left(L),
                 TreapNode(value(self), priority(self), Y, right(self)))

RECURSIVE add(_, _, _)
add(self, v, p) ==
    IF Lt(v, value(self)) THEN
        LET l == IF IsNone(left(self)) THEN TreapNode(v, p, None, None)
                 ELSE add(left(self), v, p)
            s == TreapNode(value(self), priority(self), l, right(self))
        IN IF priority(l) < priority(s) THEN rotate_right(s) ELSE s
    ELSE IF Gt(v, value(self)) THEN
        LET r == IF IsNone(right(self)) THEN TreapNode(v, p, None, None)
                 ELSE add(right(self), v, p)
            s == TreapNode(value(self), priority(self), left(self), r)
        IN IF priority(r) < priority(s) THEN rotate_left(s) ELSE s
    ELSE self

\* insert that forgets the rotation after an insertion on the right
RECURSIVE insert_no_rotate_left(_, _, _)
insert_no_rotate_left(self, v, p) ==
    IF Lt(v, value(self)) THEN
        LET l == IF IsNone(left(self)) THEN TreapNode(v, p, None, None)
                 ELSE insert_no_rotate_left(left(self), v, p)
            s == TreapNode(value(self), priority(self), l, right(self))
        IN IF priority(l) < priority(s) THEN rotate_right(s) ELSE s
    ELSE
        LET r == IF IsNone(right(self)) THEN TreapNode(v, p, None, None)
                 ELSE insert_no_rotate_left(right(self), v, p)
        IN TreapNode(value(self), priority(self), left(self), r)

\* insert that descends to the right for a smaller value and to the left
\* otherwise
RECURSIVE insert_greater_left(_, _, _)
insert_greater_left(self, v, p) ==
    IF Gt(v, value(self)) THEN
        LET l == IF ~IsNone(left(self)) THEN insert_greater_left(left(self), v, p)
                 ELSE TreapNode(v, p, None, None)
            s == TreapNode(value(self), priority(self), l, right(self))
        IN IF priority(left(s)) < priority(s) THEN rotate_right(s) ELSE s
    ELSE
        LET r == IF ~IsNone(right(self)) THEN insert_greater_left(right(self), v, p)
                 ELSE TreapNode(v, p, None, None)
            s == TreapNode(value(self), priority(self), left(self), r)
        IN IF priority(right(s)) < priority(s) THEN rotate_left(s) ELSE s

RECURSIVE insert(_, _, _)
insert(self, v, p) ==
    IF Lt(v, value(self)) THEN
        LET l == IF IsNone(left(self)) THEN TreapNode(v, p, None, None)
                 ELSE insert(left(self), v, p)
            s == TreapNode(value(self), priority(self), l, right(self))
        IN IF priority(l) < priority(s) THEN rotate_right(s) ELSE s
    ELSE
        LET r == IF IsNone(right(self)) THEN TreapNode(v, p, None, None)
                 ELSE insert(right(self), v, p)
            s == TreapNode(value(self), priority(self), left(self), r)
        IN IF priority(r) < priority(s) THEN rotate_left(s) ELSE s

\* the node found, or Error
RECURSIVE search(_, _)
search(self, v) ==
    IF Eq(v, value(self)) THEN self
    ELSE IF Lt(v, value(self)) /\ ~IsNone(left(self)) THEN search(left(self), v)
    ELSE IF Gt(v, value(self)) /\ ~IsNone(right(self)) THEN search(right(self), v)
    ELSE Error

\* the new root (None when the last node goes), or Error
RECURSIVE delete(_, _)
delete(self, v) ==
    IF \/ (IsNone(left(self)) /\ Lt(v, value(self)))
       \/ (IsNone(right(self)) /\ Gt(v, value(self)))
    THEN Error
    ELSE IF Lt(v, value(self)) THEN
        LET l == delete(left(self), v)
        IN IF IsError(l) THEN Error
           ELSE TreapNode(value(self), priority(self), l, right(self))
    ELSE IF Gt(v, value(self)) THEN
        LET r == delete(right(self), v)
        IN IF IsError(r) THEN Error
           ELSE TreapNode(value(self), priority(self), left(self), r)
    ELSE IF IsNone(left(self)) THEN right(self)
    ELSE IF IsNone(right(self)) THEN left(self)
    ELSE IF priority(left(self)) < priority(right(self)) THEN
        LET s == rotate_right(self)
            r == delete(right(s), v)
        IN IF IsError(r) THEN Error
           ELSE TreapNode(value(s), priority(s), left(s), r)
    ELSE
        LET s == rotate_left(self)
            l == delete(left(s), v)
        IN IF IsError(l) THEN Error
           ELSE TreapNode(value(s), priority(s), l, right(s))

RECURSIVE delete_all(_, _)
delete_all(self, v) ==
    IF Contains(self, v) THEN delete_all(delete(self, v), v) ELSE self

\* search(value), then delete_all(value) in both subtrees of the node found
RECURSIVE delete_all_except(_, _)
delete_all_except(self, v) ==
    IF Eq(v, value(self)) THEN
        TreapNode(value(self), priority(self),
                  IF IsNone(left(self)) THEN None ELSE delete_all(left(self), v),
                  IF IsNone(right(self)) THEN None ELSE delete_all(right(self), v))
    ELSE IF Lt(v, value(self)) /\ ~IsNone(left(self)) THEN
        TreapNode(value(self), priority(self),
                  delete_all_except(left(self), v), right(self))
    ELSE IF Gt(v, value(self)) /\ ~IsNone(right(self)) THEN
        TreapNode(value(self), priority(self),
                  left(self), delete_all_except(right(self), v))
    ELSE self

RECURSIVE unique(_)
unique(self) ==
    LET s == delete_all_except(self, value(self))
    IN TreapNode(value(s), priority(s),
                 IF IsNone(left(s)) THEN None ELSE unique(left(s)),
                 IF IsNone(right(s)) THEN None ELSE unique(right(s)))

\* delete_node(node): the node is named by its value nv and by its in-order
\* position k in the subtree of self (`node is self` iff k = len(left) + 1;
\* a k outside 1..len(self) is a node that is not in the subtree)
RECURSIVE delete_node(_, _, _)
delete_node(self, nv, k) ==
    LET here == len(left(self)) + 1
        kr == k - here
    IN
    IF \/ (IsNone(left(self)) /\ Lt(nv, value(self)))
       \/ (IsNone(right(self)) /\ Gt(nv, value(self)))
    THEN Error
    ELSE IF Lt(nv, value(self)) THEN
        LET l == delete_node(left(self), nv, k)
        IN IF IsError(l) THEN Error
           ELSE TreapNode(value(self), priority(self), l, right(self))
    ELSE IF Gt(nv, value(self)) THEN
        LET r == delete_node(right(self), nv, kr)
        IN IF IsError(r) THEN Error
           ELSE TreapNode(value(self), priority(self), left(self), r)
    ELSE IF k # here THEN
        LET tryL == ~IsNone(left(self)) /\ Eq(nv, value(left(self)))
            l == IF tryL THEN delete_node(left(self), nv, k) ELSE Error
            tryR == ~IsNone(right(self)) /\ Eq(nv, value(right(self)))
            r == IF tryR THEN delete_node(right(self), nv, kr) ELSE Error
        IN IF tryL /\ ~IsError(l)
             THEN TreapNode(value(self), priority(self), l, right(self))
           ELSE IF tryR /\ ~IsError(r)
             THEN TreapNode(value(self), priority(self), left(self), r)
           ELSE Error
    ELSE IF IsNone(left(self)) THEN right(self)
    ELSE IF IsNone(right(self)) THEN left(self)
    ELSE IF priority(left(self)) < priority(right(self)) THEN
        LET s == rotate_right(self)
            r == delete_node(right(s), nv, k - (len(left(s)) + 1))
        IN IF IsError(r) THEN Error
           ELSE TreapNode(value(s), priority(s), left(s), r)
    ELSE
        LET s == rotate_left(self)
            l == delete_node(left(s), nv, k)
        IN IF IsError(l) THEN Error
           ELSE TreapNode(value(s), priority(s), l, right(s))

\* next(reversed(self)).value
RECURSIVE max_(_)
max_(self) == IF IsNone(right(self)) THEN value(self) ELSE max_(right(self))

\* next(iter(self)).value
RECURSIVE min_(_)
min_(self) == IF IsNone(left(self)) THEN value(self) ELSE min_(left(self))

RECURSIVE copy(_)
copy(self) ==
    TreapNode(value(self), priority(self),
              IF IsNone(left(self)) THEN None ELSE copy(left(self)),
              IF IsNone(right(self)) THEN None ELSE copy(right(self)))

\* split that inserts the pivot with a drawn priority, not the forced one
split_drawn_priority(self, v) ==
    LET s == insert(self, v, MaxPri)
    IN <<left(s), right(s)>>

\* <<left, right>>
split(self, v) ==
    LET s == insert(self, v, Zero)
    IN <<left(s), right(s)>>

join(self, other) ==
    IF IsNone(self) \/ IsNone(other) THEN
        (IF IsNone(self) THEN other ELSE self)
    ELSE
        LET s == TreapNode(max_(self), Zero, self, other)
        IN delete_node(s, value(s), len(self) + 1)

\* ------------------------------------------------ TreapNode combinators
\* __add__ that hands the two halves of the split to the wrong sides
RECURSIVE node_add_swapped(_, _)
node_add_swapped(self, other) ==
    IF IsNone(self) \/ IsNone(other) THEN
        (IF IsNone(self) THEN other ELSE self)
    ELSE IF priority(self) < priority(other) THEN
        LET sp == split(other, value(self))
        IN TreapNode(value(self), priority(self),
                     node_add_swapped(left(self), sp[2]),
                     node_add_swapped(right(self), sp[1]))
    ELSE
        LET sp == split(self, value(other))
        IN TreapNode(value(other), priority(other),
                     node_add_swapped(sp[2], left(other)),
                     node_add_swapped(sp[1], right(other)))

RECURSIVE node_add(_, _)
node_add(self, other) ==
    IF IsNone(self) \/ IsNone(other) THEN
        (IF IsNone(self) THEN other ELSE self)
    ELSE IF priority(self) < priority(other) THEN
        LET sp == split(other, value(self))
        IN TreapNode(value(self), priority(self),
                     node_add(left(self), sp[1]),
                     node_add(right(self), sp[2]))
    ELSE
        LET sp == split(self, value(other))
        IN TreapNode(value(other), priority(other),
                     node_add(sp[1], left(other)),
                     node_add(sp[2], right(other)))

\* __sub__ that deletes one occurrence of other.value, not all of them
RECURSIVE node_sub_delete_once(_, _)
node_sub_delete_once(self, other) ==
    IF IsNone(self) \/ IsNone(other) THEN self
    ELSE
        LET s1 == IF Contains(self, value(other))
                  THEN delete(self, value(other)) ELSE self
        IN IF IsNone(s1) THEN s1
           ELSE
             LET sp == split(s1, value(other))
                 L == IF IsNone(sp[1]) THEN None
                      ELSE node_sub_delete_once(sp[1], left(other))
                 R == IF IsNone(sp[2]) THEN None
                      ELSE node_sub_delete_once(sp[2], right(other))
                 rt == TreapNode(value(other), Zero, L, R)
             IN delete_node(rt, value(rt), len(L) + 1)

RECURSIVE node_sub(_, _)
node_sub(self, other) ==
    IF IsNone(self) \/ IsNone(other) THEN self
    ELSE
        LET s1 == delete_all(self, value(other))
        IN IF IsNone(s1) THEN s1
           ELSE
             LET sp == split(s1, value(other))
                 L == IF IsNone(sp[1]) THEN None ELSE node_sub(sp[1], left(other))
                 R == IF IsNone(sp[2]) THEN None ELSE node_sub(sp[2], right(other))
                 rt == TreapNode(value(other), Zero, L, R)
             IN delete_node(rt, value(rt), len(L) + 1)

\* self and self.unique() or other and other.unique()
UniqueOfEither(self, other) ==
    IF ~IsNone(self) THEN unique(self)
    ELSE IF ~IsNone(other) THEN unique(other)
    ELSE None

RECURSIVE node_or(_, _)
node_or(self, other) ==
    IF IsNone(self) \/ IsNone(other) THEN UniqueOfEither(self, other)
    ELSE IF priority(self) < priority(other) THEN
        LET s1 == delete_all_except(self, value(self))
            o1 == IF Contains(other, value(s1))
                  THEN delete_all(other, value(s1)) ELSE other
        IN IF IsNone(o1) THEN s1
           ELSE
             LET sp == split(o1, value(s1))
             IN TreapNode(value(s1), priority(s1),
                          node_or(left(s1), sp[1]),
                          node_or(right(s1), sp[2]))
    ELSE
        LET o1 == delete_all_except(other, value(other))
            s1 == IF Contains(self, value(o1))
                  THEN delete_all(self, value(o1)) ELSE self
        IN IF IsNone(s1) THEN o1
           ELSE
             LET sp == split(s1, value(o1))
             IN TreapNode(value(o1), priority(o1),
                          node_or(sp[1], left(o1)),
                          node_or(sp[2], right(o1)))

RECURSIVE node_and(_, _)
node_and(self, other) ==
    IF IsNone(self) \/ IsNone(other) THEN None
    ELSE IF priority(self) < priority(other) THEN
        LET in_both == Contains(other, value(self))
            s1 == delete_all_except(self, value(self))
            o1 == IF in_both THEN delete_all(other, value(s1)) ELSE other
        IN IF IsNone(o1) THEN s1
           ELSE
             LET sp == split(o1, value(s1))
                 s2 == TreapNode(value(s1), priority(s1),
                                 node_and(left(s1), sp[1]),
                                 node_and(right(s1), sp[2]))
             IN IF ~in_both THEN delete(s2, value(s2)) ELSE s2
    ELSE
        LET in_both == Contains(self, value(other))
            o1 == delete_all_except(other, value(other))
            s1 == IF in_both THEN delete_all(self, value(o1)) ELSE self
        IN IF IsNone(s1) THEN o1
           ELSE
             LET sp == split(s1, value(o1))
                 o2 == TreapNode(value(o1), priority(o1),
                                 node_and(sp[1], left(o1)),
                                 node_and(sp[2], right(o1)))
             IN IF ~in_both THEN delete(o2, value(o2)) ELSE o2

\* __xor__ that looks for the root value in the other treap only after
\* it has deleted it there
RECURSIVE node_xor_late_check(_, _)
node_xor_late_check(self, other) ==
    IF IsNone(self) \/ IsNone(other) THEN UniqueOfEither(self, other)
    ELSE IF priority(self) < priority(other) THEN
        LET o1 == delete_all(other, value(self))
            in_both == Contains(o1, value(self))
        IN IF IsNone(o1) THEN delete_all(self, value(self))
           ELSE
             LET sp == split(o1, value(self))
                 s2 == TreapNode(value(self), priority(self),
                                 node_xor_late_check(left(self), sp[1]),
                                 node_xor_late_check(right(self), sp[2]))
             IN IF in_both THEN delete_all(s2, value(s2))
                ELSE delete_all_except(s2, value(s2))
    ELSE
        LET s1 == delete_all(self, value(other))
            in_both == Contains(s1, value(other))
        IN IF IsNone(s1) THEN delete_all(other, value(other))
           ELSE
             LET sp == split(s1, value(other))
                 o2 == TreapNode(value(other), priority(other),
                                 node_xor_late_check(sp[1], left(other)),
                                 node_xor_late_check(sp[2], right(other)))
             IN IF in_both THEN delete_all(o2, value(o2))
                ELSE delete_all_except(o2, value(o2))

RECURSIVE node_xor(_, _)
node_xor(self, other) ==
    IF IsNone(self) \/ IsNone(other) THEN UniqueOfEither(self, other)
    ELSE IF priority(self) < priority(other) THEN
        LET in_both == Contains(other, value(self))
            o1 == delete_all(other, value(self))
        IN IF IsNone(o1) THEN delete_all(self, value(self))
           ELSE
             LET sp == split(o1, value(self))
                 s2 == TreapNode(value(self), priority(self),
                                 node_xor(left(self), sp[1]),
                                 node_xor(right(self), sp[2]))
             IN IF in_both THEN delete_all(s2, value(s2))
                ELSE delete_all_except(s2, value(s2))
    ELSE
        LET in_both == Contains(self, value(other))
            s1 == delete_all(self, value(other))
        IN IF IsNone(s1) THEN delete_all(other, value(other))
           ELSE
             LET sp == split(s1, value(other))
                 o2 == TreapNode(value(other), priority(other),
                                 node_xor(sp[1], left(other)),
                                 node_xor(sp[2], right(other)))
             IN IF in_both THEN delete_all(o2, value(o2))
                ELSE delete_all_except(o2, value(o2))

\* ------------------------------------------------------------- Treap
\* self.root and self.root.copy()
Treap_copy(rt) == IF IsNone(rt) THEN None ELSE copy(rt)

Treap_insert(rt, v, p) ==
    IF ~IsNone(rt) THEN insert(rt, v, p) ELSE TreapNode(v, p, None, None)

Treap_add(rt, v, p) ==
    IF ~IsNone(rt) THEN add(rt, v, p) ELSE TreapNode(v, p, None, None)

\* the root afterwards and whether the call raised ValueError
Treap_delete(rt, v) ==
    LET r == IF ~IsNone(rt) THEN delete(rt, v) ELSE Error
    IN IF IsNone(rt) THEN [root |-> rt, raised |-> TRUE]
       ELSE IF IsError(r) THEN [root |-> rt, raised |-> TRUE]
       ELSE [root |-> r, raised |-> TRUE]

\* the root of the treap that self + other, self - other, self | other,
\* self & other and self ^ other return
Treap_op_add(rt, other) == node_add(Treap_copy(rt), Treap_copy(other))
Treap_op_sub(rt, other) == node_sub(Treap_copy(rt), other)
Treap_op_or(rt, other) == node_or(Treap_copy(rt), Treap_copy(other))
Treap_op_and(rt, other) == node_and(Treap_copy(rt), Treap_copy(other))
Treap_op_xor(rt, other) == node_xor(Treap_copy(rt), Treap_copy(other))

\* self.root after self += other, -=, |=, &=, ^=
Treap_iadd(rt, other) == node_add(rt, Treap_copy(other))
Treap_isub(rt, other) == node_sub(rt, other)
Treap_ior(rt, other) == node_or(rt, Treap_copy(other))
Treap_iand(rt, other) == node_and(rt, Treap_copy(other))
Treap_ixor(rt, other) == node_xor(rt, Treap_copy(other))

\* ------------------------------------------------- the treap state machine
\* a, b: the roots of two Treap objects.  out: what the last call was given
\* and what it gave back (op, its value argument, the operands before the
\* call, the tree or trees returned, whether it raised), until the caller
\* drops it; the calls that only change a or b leave nothing in out.
Values == {<<v>> : v \in 1..MaxVal}

Out(op, arg, preA, preB, res, res2, raised) ==
    [op |-> op, arg |-> arg, preA |-> preA, preB |-> preB,
     res |-> res, res2 |-> res2, raised |-> raised]

NoOut == Out("none", <<>>, None, None, None, None, FALSE)

\* stop = object(): the sentinel that next(it, stop) returns at the end
Stop == <<>>

\* Treap.__init__: the iterator's position, the value x to insert, the two
\* futures ("none", "pending" or "done"), the value f_next holds, and the
\* arguments of the insert tasks the executor has been given and has not
\* finished
Ctor(it, x, f_insert, f_next, fetched, inserting) ==
    [it |-> it, x |-> x, f_insert |-> f_insert, f_next |-> f_next,
     fetched |-> fetched, inserting |-> inserting]

NoCtor == Ctor(0, Stop, "none", "none", Stop, <<>>)

SortIdle ==
    /\ items = <<>>
    /\ key = "none"
    /\ reverse = FALSE
    /\ pc = "idle"
    /\ ctor = NoCtor
    /\ root = None
    /\ tout = <<>>
    /\ heap = <<>>
    /\ hout = <<>>

Init ==
    /\ a = None
    /\ b = None
    /\ out = NoOut
    /\ SortIdle

\* no call has a result outstanding
Ready == out.op = "none"

InsertA ==
    /\ Ready
    /\ len(a) + len(b) < MaxNodes
    /\ \E v \in Values, p \in Priorities : a' = Treap_insert(a, v, p)
    /\ out' = NoOut
    /\ UNCHANGED <<b, sortVars>>

InsertB ==
    /\ Ready
    /\ len(a) + len(b) < MaxNodes
    /\ \E v \in Values, p \in Priorities : b' = Treap_insert(b, v, p)
    /\ out' = NoOut
    /\ UNCHANGED <<a, sortVars>>

AddA ==
    /\ Ready
    /\ len(a) + len(b) < MaxNodes
    /\ \E v \in Values, p \in Priorities : a' = Treap_add(a, v, p)
    /\ out' = NoOut
    /\ UNCHANGED <<b, sortVars>>

DeleteA ==
    /\ Ready
    /\ \E v \in Values :
         LET r == Treap_delete(a, v)
         IN /\ a' = r.root
            /\ out' = Out("delete", v, a, None, None, None, r.raised)
    /\ UNCHANGED <<b, sortVars>>

Split ==
    /\ Ready
    /\ ~IsNone(a)
    /\ \E v \in Values :
         LET sp == split(copy(a), v)
         IN out' = Out("split", v, a, None, sp[1], sp[2], FALSE)
    /\ UNCHANGED <<a, b, sortVars>>

OpAdd ==
    /\ Ready
    /\ out' = Out("+", <<>>, a, b, Treap_op_add(a, b), None, FALSE)
    /\ UNCHANGED <<a, b, sortVars>>

OpSub ==
    /\ Ready
    /\ out' = Out("-", <<>>, a, b, Treap_op_sub(a, b), None, FALSE)
    /\ UNCHANGED <<a, b, sortVars>>

OpOr ==
    /\ Ready
    /\ out' = Out("|", <<>>, a, b, Treap_op_or(a, b), None, FALSE)
    /\ UNCHANGED <<a, b, sortVars>>

OpAnd ==
    /\ Ready
    /\ out' = Out("&", <<>>, a, b, Treap_op_and(a, b), None, FALSE)
    /\ UNCHANGED <<a, b, sortVars>>

OpXor ==
    /\ Ready
    /\ out' = Out("^", <<>>, a, b, Treap_op_xor(a, b), None, FALSE)
    /\ UNCHANGED <<a, b, sortVars>>

\* the in-place forms; the sizes are capped so that the result and b stay
\* within MaxNodes nodes together
IAdd ==
    /\ Ready
    /\ len(a) + 2 * len(b) <= MaxNodes
    /\ a' = Treap_iadd(a, b)
    /\ out' = NoOut
    /\ UNCHANGED <<b, sortVars>>

ISub ==
    /\ Ready
    /\ a' = Treap_isub(a, b)
    /\ out' = NoOut
    /\ UNCHANGED <<b, sortVars>>

IOr ==
    /\ Ready
    /\ len(a) + 2 * len(b) <= MaxNodes
    /\ a' = Treap_ior(a, b)
    /\ out' = NoOut
    /\ UNCHANGED <<b, sortVars>>

IAnd ==
    /\ Ready
    /\ a' = Treap_iand(a, b)
    /\ out' = NoOut
    /\ UNCHANGED <<b, sortVars>>

IXor ==
    /\ Ready
    /\ len(a) + 2 * len(b) <= MaxNodes
    /\ a' = Treap_ixor(a, b)
    /\ out' = NoOut
    /\ UNCHANGED <<b, sortVars>>

\* the caller is done with what the last call returned or raised
Discard ==
    /\ ~Ready
    /\ out' = NoOut
    /\ UNCHANGED <<a, b, sortVars>>

Next ==
    \/ InsertA \/ InsertB \/ AddA \/ DeleteA \/ Split
    \/ OpAdd \/ OpSub \/ OpOr \/ OpAnd \/ OpXor
    \/ IAdd \/ ISub \/ IOr \/ IAnd \/ IXor
    \/ Discard

Spec == Init /\ [][Next]_vars

\* ------------------------------------------------------ nodes as objects
\* The operators above compute what a call returns.  The operators below
\* also keep what a call does to the nodes it was handed: a store h is the
\* sequence of the node objects created so far, a node object is named by
\* its position in h (NoNode names None), and its fields are
\* <<value, priority, left, right>> with left and right naming nodes.
NoNode == 0

value_of(h, n) == h[n][1]
priority_of(h, n) == h[n][2]
left_of(h, n) == h[n][3]
right_of(h, n) == h[n][4]

\* self.left = x and self.right = x
SetLeft(h, n, x) == [h EXCEPT ![n] = <<@[1], @[2], x, @[4]>>]
SetRight(h, n, x) == [h EXCEPT ![n] = <<@[1], @[2], @[3], x>>]

\* TreapNode(v, p, l, r): a new object
New(h, v, p, l, r) == [h |-> Append(h, <<v, p, l, r>>), n |-> Len(h) + 1]

\* the element of a set of one: Only({e(x) : x \in {call}}) is e of what the
\* call returned
Only(S) == CHOOSE x \in S : TRUE

\* the objects of the tree t, created in h
RECURSIVE Load(_, _)
Load(h, t) ==
    IF IsNone(t) THEN [h |-> h, n |-> NoNode]
    ELSE LET l == Load(h, left(t))
             r == Load(l.h, right(t))
         IN New(r.h, value(t), priority(t), l.n, r.n)

\* the tree that hangs from the node n in h
RECURSIVE TreeAt(_, _)
TreeAt(h, n) ==
    IF n = NoNode THEN None
    ELSE TreapNode(value_of(h, n), priority_of(h, n),
                   TreeAt(h, left_of(h, n)), TreeAt(h, right_of(h, n)))

\* value in (self or ())
RECURSIVE obj_contains(_, _, _)
obj_contains(h, self, v) ==
    /\ self # NoNode
    /\ \/ Eq(v, value_of(h, self))
       \/ (Lt(v, value_of(h, self)) /\ obj_contains(h, left_of(h, self), v))
       \/ (Gt(v, value_of(h, self)) /\ obj_contains(h, right_of(h, self), v))

obj_rotate_left(h, self) ==
    LET R == right_of(h, self)
        X == left_of(h, R)
    IN [h |-> SetRight(SetLeft(h, R, self), self, X), n |-> R]

obj_rotate_right(h, self) ==
    LET L == left_of(h, self)
        Y == right_of(h, L)
    IN [h |-> SetLeft(SetRight(h, L, self), self, Y), n |-> L]

RECURSIVE obj_insert(_, _, _, _)
obj_insert(h, self, v, p) ==
    IF Lt(v, value_of(h, self)) THEN
        LET r == IF left_of(h, self) # NoNode
                 THEN obj_insert(h, left_of(h, self), v, p)
                 ELSE New(h, v, p, NoNode, NoNode)
            h1 == SetLeft(r.h, self, r.n)
        IN IF priority_of(h1, r.n) < priority_of(h1, self)
           THEN obj_rotate_right(h1, self)
           ELSE [h |-> h1, n |-> self]
    ELSE
        LET r == IF right_of(h, self) # NoNode
                 THEN obj_insert(h, right_of(h, self), v, p)
                 ELSE New(h, v, p, NoNode, NoNode)
            h1 == SetRight(r.h, self, r.n)
        IN IF priority_of(h1, r.n) < priority_of(h1, self)
           THEN obj_rotate_left(h1, self)
           ELSE [h |-> h1, n |-> self]

\* split: the store afterwards and the two parts
obj_split(h, self, v) ==
    Only({[h |-> s.h, l |-> left_of(s.h, s.n), r |-> right_of(s.h, s.n)] :
          s \in {obj_insert(h, self, v, Zero)}})

\* what a call that may raise gives: the store, the node returned, and
\* whether it raised ValueError instead
Ret(h, n, err) == [h |-> h, n |-> n, err |-> err]


RECURSIVE obj_delete(_, _, _)
obj_delete(h, self, v) ==
    LET l == left_of(h, self)
        r == right_of(h, self)
    IN
    IF \/ (l = NoNode /\ Lt(v, value_of(h, self)))
       \/ (r = NoNode /\ Gt(v, value_of(h, self)))
    THEN Ret(h, self, TRUE)
    ELSE IF Lt(v, value_of(h, self)) THEN
        LET d == obj_delete(h, l, v)
        IN IF d.err THEN Ret(d.h, self, TRUE)
           ELSE Ret(SetLeft(d.h, self, d.n), self, FALSE)
    ELSE IF Gt(v, value_of(h, self)) THEN
        LET d == obj_delete(h, r, v)
        IN IF d.err THEN Ret(d.h, self, TRUE)
           ELSE Ret(SetRight(d.h, self, d.n), self, FALSE)
    ELSE IF l = NoNode THEN Ret(h, r, FALSE)
    ELSE IF r = NoNode THEN Ret(h, l, FALSE)
    ELSE IF priority_of(h, l) < priority_of(h, r) THEN
        LET s == obj_rotate_right(h, self)
            d == obj_delete(s.h, right_of(s.h, s.n), v)
        IN IF d.err THEN Ret(d.h, s.n, TRUE)
           ELSE Ret(SetRight(d.h, s.n, d.n), s.n, FALSE)
    ELSE
        LET s == obj_rotate_left(h, self)
            d == obj_delete(s.h, left_of(s.h, s.n), v)
        IN IF d.err THEN Ret(d.h, s.n, TRUE)
           ELSE Ret(SetLeft(d.h, s.n, d.n), s.n, FALSE)

\* while value in (self or ()): self = self.delete(value)
RECURSIVE obj_delete_all(_, _, _)
obj_delete_all(h, self, v) ==
    IF obj_contains(h, self, v) THEN
        Only({IF d.err THEN d ELSE obj_delete_all(d.h, d.n, v) :
              d \in {obj_delete(h, self, v)}})
    ELSE Ret(h, self, FALSE)

\* delete_node(node): `node is self` compares the names of the two objects
RECURSIVE obj_delete_node(_, _, _)
obj_delete_node(h, self, node) ==
    LET nv == value_of(h, node)
        l == left_of(h, self)
        r == right_of(h, self)
    IN
    IF \/ (l = NoNode /\ Lt(nv, value_of(h, self)))
       \/ (r = NoNode /\ Gt(nv, value_of(h, self)))
    THEN Ret(h, self, TRUE)
    ELSE IF Lt(nv, value_of(h, self)) THEN
        LET d == obj_delete_node(h, l, node)
        IN IF d.err THEN Ret(d.h, self, TRUE)
           ELSE Ret(SetLeft(d.h, self, d.n), self, FALSE)
    ELSE IF Gt(nv, value_of(h, self)) THEN
        LET d == obj_delete_node(h, r, node)
        IN IF d.err THEN Ret(d.h, self, TRUE)
           ELSE Ret(SetRight(d.h, self, d.n), self, FALSE)
    ELSE IF node # self THEN
        LET tryL == l # NoNode /\ Eq(nv, value_of(h, l))
            dl == obj_delete_node(h, l, node)
            h1 == IF tryL THEN dl.h ELSE h
            r1 == right_of(h1, self)
            tryR == r1 # NoNode /\ Eq(nv, value_of(h1, r1))
            dr == obj_delete_node(h1, r1, node)
        IN IF tryL /\ ~dl.err THEN Ret(SetLeft(dl.h, self, dl.n), self, FALSE)
           ELSE IF tryR /\ ~dr.err THEN Ret(SetRight(dr.h, self, dr.n), self, FALSE)
           ELSE Ret(IF tryR THEN dr.h ELSE h1, self, TRUE)
    ELSE IF l = NoNode THEN Ret(h, r, FALSE)
    ELSE IF r = NoNode THEN Ret(h, l, FALSE)
    ELSE IF priority_of(h, l) < priority_of(h, r) THEN
        LET s == obj_rotate_right(h, self)
            d == obj_delete_node(s.h, right_of(s.h, s.n), node)
        IN IF d.err THEN Ret(d.h, s.n, TRUE)
           ELSE Ret(SetRight(d.h, s.n, d.n), s.n, FALSE)
    ELSE
        LET s == obj_rotate_left(h, self)
            d == obj_delete_node(s.h, left_of(s.h, s.n), node)
        IN IF d.err THEN Ret(d.h, s.n, TRUE)
           ELSE Ret(SetLeft(d.h, s.n, d.n), s.n, FALSE)


RECURSIVE obj_search(_, _, _)
obj_search(h, self, v) ==
    IF Eq(v, value_of(h, self)) THEN Ret(h, self, FALSE)
    ELSE IF Lt(v, value_of(h, self)) /\ left_of(h, self) # NoNode
        THEN obj_search(h, left_of(h, self), v)
    ELSE IF Gt(v, value_of(h, self)) /\ right_of(h, self) # NoNode
        THEN obj_search(h, right_of(h, self), v)
    ELSE Ret(h, self, TRUE)

obj_delete_all_except(h, self, v) ==
    Only({IF first.err THEN Ret(h, self, FALSE)
          ELSE Only({Only({Ret(SetRight(dr.h, first.n, dr.n), self, dl.err \/ dr.err) :
                           dr \in {LET h1 == SetLeft(dl.h, first.n, dl.n)
                                   IN IF right_of(h1, first.n) # NoNode
                                      THEN obj_delete_all(h1, right_of(h1, first.n), v)
                                      ELSE Ret(h1, NoNode, FALSE)}}) :
                     dl \in {IF left_of(h, first.n) # NoNode
                             THEN obj_delete_all(h, left_of(h, first.n), v)
                             ELSE Ret(h, NoNode, FALSE)}}) :
          first \in {obj_search(h, self, v)}})

RECURSIVE obj_unique(_, _)
obj_unique(h, self) ==
    Only({LET ul == IF left_of(s.h, s.n) # NoNode
                    THEN obj_unique(s.h, left_of(s.h, s.n))
                    ELSE Ret(s.h, NoNode, FALSE)
              h1 == SetLeft(ul.h, s.n, ul.n)
              ur == IF right_of(h1, s.n) # NoNode
                    THEN obj_unique(h1, right_of(h1, s.n))
                    ELSE Ret(h1, NoNode, FALSE)
          IN Ret(SetRight(ur.h, s.n, ur.n), s.n, s.err \/ ul.err \/ ur.err) :
          s \in {obj_delete_all_except(h, self, value_of(h, self))}})

\* copy: new objects for the whole subtree
RECURSIVE obj_copy(_, _)
obj_copy(h, self) ==
    LET l == IF left_of(h, self) # NoNode THEN obj_copy(h, left_of(h, self))
             ELSE [h |-> h, n |-> NoNode]
        r == IF right_of(l.h, self) # NoNode THEN obj_copy(l.h, right_of(l.h, self))
             ELSE [h |-> l.h, n |-> NoNode]
    IN New(r.h, value_of(h, self), priority_of(h, self), l.n, r.n)

\* self and self.unique() or other and other.unique()
obj_unique_of_either(h, self, other) ==
    IF self # NoNode THEN obj_unique(h, self)
    ELSE IF other # NoNode THEN obj_unique(h, other)
    ELSE Ret(h, NoNode, FALSE)

\* TreapNode.__add__
RECURSIVE obj_add(_, _, _)
obj_add(h, self, other) ==
    IF self = NoNode \/ other = NoNode THEN
        Ret(h, IF self # NoNode THEN self ELSE other, FALSE)
    ELSE IF priority_of(h, self) < priority_of(h, other) THEN
        Only({LET l == obj_add(sp.h, left_of(sp.h, self), sp.l)
                  r == obj_add(l.h, right_of(l.h, self), sp.r)
                  s == New(r.h, value_of(h, self), priority_of(h, self), l.n, r.n)
              IN Ret(s.h, s.n, l.err \/ r.err) :
              sp \in {obj_split(h, other, value_of(h, self))}})
    ELSE
        Only({LET l == obj_add(sp.h, sp.l, left_of(sp.h, other))
                  r == obj_add(l.h, sp.r, right_of(l.h, other))
                  s == New(r.h, value_of(h, other), priority_of(h, other), l.n, r.n)
              IN Ret(s.h, s.n, l.err \/ r.err) :
              sp \in {obj_split(h, self, value_of(h, other))}})

\* TreapNode.__sub__
RECURSIVE obj_sub(_, _, _)
obj_sub(h, self, other) ==
    IF self = NoNode \/ other = NoNode THEN Ret(h, self, FALSE)
    ELSE
        Only({IF d.err \/ d.n = NoNode THEN d
              ELSE Only({LET l == IF sp.l # NoNode
                                  THEN obj_sub(sp.h, sp.l, left_of(sp.h, other))
                                  ELSE Ret(sp.h, NoNode, FALSE)
                             r == IF sp.r # NoNode
                                  THEN obj_sub(l.h, sp.r, right_of(l.h, other))
                                  ELSE Ret(l.h, NoNode, FALSE)
                             top == New(r.h, value_of(r.h, other), Zero, l.n, r.n)
                         IN Only({Ret(j.h, j.n, l.err \/ r.err \/ j.err) :
                                  j \in {obj_delete_node(top.h, top.n, top.n)}}) :
                         sp \in {obj_split(d.h, d.n, value_of(d.h, other))}}) :
              d \in {obj_delete_all(h, self, value_of(h, other))}})

\* TreapNode.__or__
RECURSIVE obj_or(_, _, _)
obj_or(h, self, other) ==
    IF self = NoNode \/ other = NoNode THEN obj_unique_of_either(h, self, other)
    ELSE IF priority_of(h, self) < priority_of(h, other) THEN
        Only({Only({IF o.n = NoNode THEN Ret(o.h, s.n, s.err \/ o.err)
                    ELSE Only({LET l == obj_or(sp.h, left_of(sp.h, s.n), sp.l)
                                   r == obj_or(l.h, right_of(l.h, s.n), sp.r)
                                   nw == New(r.h, value_of(o.h, s.n),
                                             priority_of(o.h, s.n), l.n, r.n)
                               IN Ret(nw.h, nw.n, s.err \/ o.err \/ l.err \/ r.err) :
                               sp \in {obj_split(o.h, o.n, value_of(o.h, s.n))}}) :
                    o \in {IF obj_contains(s.h, other, value_of(s.h, s.n))
                           THEN obj_delete_all(s.h, other, value_of(s.h, s.n))
                           ELSE Ret(s.h, other, FALSE)}}) :
              s \in {obj_delete_all_except(h, self, value_of(h, self))}})
    ELSE
        Only({Only({IF s.n = NoNode THEN Ret(s.h, o.n, s.err \/ o.err)
                    ELSE Only({LET l == obj_or(sp.h, sp.l, left_of(sp.h, o.n))
                                   r == obj_or(l.h, sp.r, right_of(l.h, o.n))
                                   nw == New(r.h, value_of(s.h, o.n),
                                             priority_of(s.h, o.n), l.n, r.n)
                               IN Ret(nw.h, nw.n, s.err \/ o.err \/ l.err \/ r.err) :
                               sp \in {obj_split(s.h, s.n, value_of(s.h, o.n))}}) :
                    s \in {IF obj_contains(o.h, self, value_of(o.h, o.n))
                           THEN obj_delete_all(o.h, self, value_of(o.h, o.n))
                           ELSE Ret(o.h, self, FALSE)}}) :
              o \in {obj_delete_all_except(h, other, value_of(h, other))}})

\* TreapNode.__and__
RECURSIVE obj_and(_, _, _)
obj_and(h, self, other) ==
    IF self = NoNode \/ other = NoNode THEN Ret(h, NoNode, FALSE)
    ELSE IF priority_of(h, self) < priority_of(h, other) THEN
        Only({Only({IF o.n = NoNode THEN Ret(o.h, s.n, s.err \/ o.err)
                    ELSE Only({LET l == obj_and(sp.h, left_of(sp.h, s.n), sp.l)
                                   h1 == SetLeft(l.h, s.n, l.n)
                                   r == obj_and(h1, right_of(h1, s.n), sp.r)
                                   h2 == SetRight(r.h, s.n, r.n)
                               IN Only({Ret(d.h, d.n,
                                            s.err \/ o.err \/ l.err \/ r.err \/ d.err) :
                                        d \in {IF ~o.in_both
                                               THEN obj_delete(h2, s.n, value_of(h2, s.n))
                                               ELSE Ret(h2, s.n, FALSE)}}) :
                               sp \in {obj_split(o.h, o.n, value_of(o.h, s.n))}}) :
                    o \in {LET in_both == obj_contains(h, other, value_of(h, self))
                               d == IF in_both
                                    THEN obj_delete_all(s.h, other, value_of(s.h, s.n))
                                    ELSE Ret(s.h, other, FALSE)
                           IN [h |-> d.h, n |-> d.n, err |-> d.err,
                               in_both |-> in_both]}}) :
              s \in {obj_delete_all_except(h, self, value_of(h, self))}})
    ELSE
        Only({Only({IF s.n = NoNode THEN Ret(s.h, o.n, s.err \/ o.err)
                    ELSE Only({LET l == obj_and(sp.h, sp.l, left_of(sp.h, o.n))
                                   h1 == SetLeft(l.h, o.n, l.n)
                                   r == obj_and(h1, sp.r, right_of(h1, o.n))
                                   h2 == SetRight(r.h, o.n, r.n)
                               IN Only({Ret(d.h, d.n,
                                            s.err \/ o.err \/ l.err \/ r.err \/ d.err) :
                                        d \in {IF ~s.in_both
                                               THEN obj_delete(h2, o.n, value_of(h2, o.n))
                                               ELSE Ret(h2, o.n, FALSE)}}) :
                               sp \in {obj_split(s.h, s.n, value_of(s.h, o.n))}}) :
                    s \in {LET in_both == obj_contains(h, self, value_of(h, other))
                               d == IF in_both
                                    THEN obj_delete_all(o.h, self, value_of(o.h, o.n))
                                    ELSE Ret(o.h, self, FALSE)
                           IN [h |-> d.h, n |-> d.n, err |-> d.err,
                               in_both |-> in_both]}}) :
              o \in {obj_delete_all_except(h, other, value_of(h, other))}})

\* TreapNode.__xor__
RECURSIVE obj_xor(_, _, _)
obj_xor(h, self, other) ==
    IF self = NoNode \/ other = NoNode THEN obj_unique_of_either(h, self, other)
    ELSE IF priority_of(h, self) < priority_of(h, other) THEN
        Only({IF o.n = NoNode THEN obj_delete_all(o.h, self, value_of(o.h, self))
              ELSE Only({LET l == obj_xor(sp.h, left_of(sp.h, self), sp.l)
                             h1 == SetLeft(l.h, self, l.n)
                             r == obj_xor(h1, right_of(h1, self), sp.r)
                             h2 == SetRight(r.h, self, r.n)
                         IN Only({Ret(d.h, d.n, o.err \/ l.err \/ r.err \/ d.err) :
                                  d \in {IF obj_contains(h, other, value_of(h, self))
                                         THEN obj_delete_all(h2, self, value_of(h2, self))
                                         ELSE obj_delete_all_except(h2, self,
                                                                    value_of(h2, self))}}) :
                         sp \in {obj_split(o.h, o.n, value_of(o.h, self))}}) :
              o \in {obj_delete_all(h, other, value_of(h, self))}})
    ELSE
        Only({IF s.n = NoNode THEN obj_delete_all(s.h, other, value_of(s.h, other))
              ELSE Only({LET l == obj_xor(sp.h, sp.l, left_of(sp.h, other))
                             h1 == SetLeft(l.h, other, l.n)
                             r == obj_xor(h1, sp.r, right_of(h1, other))
                             h2 == SetRight(r.h, other, r.n)
                         IN Only({Ret(d.h, d.n, s.err \/ l.err \/ r.err \/ d.err) :
                                  d \in {IF obj_contains(h, self, value_of(h, other))
                                         THEN obj_delete_all(h2, other, value_of(h2, other))
                                         ELSE obj_delete_all_except(h2, other,
                                                                    value_of(h2, other))}}) :
                         sp \in {obj_split(s.h, s.n, value_of(s.h, other))}}) :
              s \in {obj_delete_all(h, self, value_of(h, other))}})

\* TreapNode.isdisjoint: every outcome the draws of random() allow, each
\* the store afterwards and the answer
RECURSIVE obj_isdisjoint(_, _, _)
obj_isdisjoint(h, self, other) ==
    IF self = NoNode \/ other = NoNode THEN {[h |-> h, res |-> TRUE]}
    ELSE
        LET Drawn(s, o) ==
                IF obj_contains(h, o, value_of(h, s)) THEN {[h |-> h, res |-> FALSE]}
                ELSE UNION {UNION {IF ~f.res THEN {f}
                                   ELSE obj_isdisjoint(f.h, right_of(f.h, s), sp.r) :
                                   f \in obj_isdisjoint(sp.h, left_of(sp.h, s), sp.l)} :
                            sp \in {obj_split(h, o, value_of(h, s))}}
        IN Drawn(other, self) \cup Drawn(self, other)


\* next(reversed(self)) and next(iter(self)): the node, not its value
RECURSIVE obj_max_(_, _)
obj_max_(h, self) ==
    IF right_of(h, self) = NoNode THEN self ELSE obj_max_(h, right_of(h, self))

RECURSIVE obj_min_(_, _)
obj_min_(h, self) ==
    IF left_of(h, self) = NoNode THEN self ELSE obj_min_(h, left_of(h, self))

\* the nodes below n in order: iter(n or ())
RECURSIVE NodesOf(_, _)
NodesOf(h, n) ==
    IF n = NoNode THEN <<>>
    ELSE NodesOf(h, left_of(h, n)) \o <<n>> \o NodesOf(h, right_of(h, n))

\* ------------------------------------------------- Treap on node objects
\* What a Treap method does to the store, where self and other name the
\* root nodes of the two Treap objects: the store afterwards, self.root
\* afterwards, the root of the Treap returned, and whether it raised.
Done(h, rt, ret, err) == [h |-> h, root |-> rt, ret |-> ret, err |-> err]

\* self.root and self.root.copy()
obj_Treap_copy(h, rt) ==
    IF rt = NoNode THEN [h |-> h, n |-> NoNode] ELSE obj_copy(h, rt)

Treap__add__(h, self, other) ==
    LET c1 == obj_Treap_copy(h, self)
        c2 == obj_Treap_copy(c1.h, other)
    IN Only({Done(r.h, self, r.n, r.err) : r \in {obj_add(c2.h, c1.n, c2.n)}})

\* __iadd__ that hands other.root itself to TreapNode.__add__
Treap__iadd__no_copy(h, self, other) ==
    Only({Done(r.h, r.n, r.n, r.err) : r \in {obj_add(h, self, other)}})


Treap__iadd__(h, self, other) ==
    LET c2 == obj_Treap_copy(h, other)
    IN Only({Done(r.h, r.n, r.n, r.err) : r \in {obj_add(c2.h, self, c2.n)}})

Treap__sub__(h, self, other) ==
    LET c1 == obj_Treap_copy(h, self)
    IN Only({Done(r.h, self, r.n, r.err) : r \in {obj_sub(c1.h, c1.n, other)}})

Treap__isub__(h, self, other) ==
    Only({Done(r.h, r.n, r.n, r.err) : r \in {obj_sub(h, self, other)}})

\* __or__ that combines the copies with TreapNode.__add__
Treap__or__as_add(h, self, other) ==
    LET c1 == obj_Treap_copy(h, self)
        c2 == obj_Treap_copy(c1.h, other)
    IN Only({Done(r.h, self, r.n, r.err) : r \in {obj_add(c2.h, c1.n, c2.n)}})


Treap__or__(h, self, other) ==
    LET c1 == obj_Treap_copy(h, self)
        c2 == obj_Treap_copy(c1.h, other)
    IN Only({Done(r.h, self, r.n, r.err) : r \in {obj_or(c2.h, c1.n, c2.n)}})

Treap__ior__(h, self, other) ==
    LET c2 == obj_Treap_copy(h, other)
    IN Only({Done(r.h, r.n, r.n, r.err) : r \in {obj_or(c2.h, self, c2.n)}})

\* __and__ that combines the copies with TreapNode.__or__
Treap__and__as_or(h, self, other) ==
    LET c1 == obj_Treap_copy(h, self)
        c2 == obj_Treap_copy(c1.h, other)
    IN Only({Done(r.h, self, r.n, r.err) : r \in {obj_or(c2.h, c1.n, c2.n)}})


Treap__and__(h, self, other) ==
    LET c1 == obj_Treap_copy(h, self)
        c2 == obj_Treap_copy(c1.h, other)
    IN Only({Done(r.h, self, r.n, r.err) : r \in {obj_and(c2.h, c1.n, c2.n)}})

Treap__iand__(h, self, other) ==
    LET c2 == obj_Treap_copy(h, other)
    IN Only({Done(r.h, r.n, r.n, r.err) : r \in {obj_and(c2.h, self, c2.n)}})

Treap__xor__(h, self, other) ==
    LET c1 == obj_Treap_copy(h, self)
        c2 == obj_Treap_copy(c1.h, other)
    IN Only({Done(r.h, self, r.n, r.err) : r \in {obj_xor(c2.h, c1.n, c2.n)}})

Treap__ixor__(h, self, other) ==
    LET c2 == obj_Treap_copy(h, other)
    IN Only({Done(r.h, r.n, r.n, r.err) : r \in {obj_xor(c2.h, self, c2.n)}})


\* ------------------------------------------- calls on the Treap objects
\* An exception a call raised is kept as its type and its message.

\* The nodes of the Treap a and of the Treap b as objects of one store, and
\* the argument of a call on a: the Treap b or the Treap a itself.  What
\* the call does to the nodes it is handed shows in a and b afterwards.
Operands(arg) ==
    Only({[h |-> lb.h, self |-> la.n, b |-> lb.n,
           other |-> IF arg = "a" THEN la.n ELSE lb.n,
           pre |-> IF arg = "a" THEN a ELSE b] :
          la \in {Load(<<>>, a)}, lb \in {Load(Load(<<>>, a).h, b)}})

\* a call of a binary operator or of its in-place form on the Treap a with
\* the outcome r; out.arg names the argument and out.preB is what it held
\* before the call
BinaryCall(op, arg, o, r) ==
    /\ a' = TreeAt(r.h, r.root)
    /\ b' = TreeAt(r.h, o.b)
    /\ out' = Out(op, <<arg>>, a, o.pre, TreeAt(r.h, r.ret), None, r.err)
    /\ len(a') + len(b') <= MaxNodes
    /\ UNCHANGED sortVars

CallAdd ==
    /\ Ready
    /\ \E arg \in {"a", "b"} :
         \E o \in {Operands(arg)} :
           \E r \in {Treap__add__(o.h, o.self, o.other)} :
             BinaryCall("+", arg, o, r)

CallIAdd ==
    /\ Ready
    /\ \E arg \in {"a", "b"} :
         \E o \in {Operands(arg)} :
           \E r \in {Treap__iadd__(o.h, o.self, o.other)} :
             BinaryCall("+=", arg, o, r)

CallSub ==
    /\ Ready
    /\ \E arg \in {"a", "b"} :
         \E o \in {Operands(arg)} :
           \E r \in {Treap__sub__(o.h, o.self, o.other)} :
             BinaryCall("-", arg, o, r)

CallISub ==
    /\ Ready
    /\ \E arg \in {"a", "b"} :
         \E o \in {Operands(arg)} :
           \E r \in {Treap__isub__(o.h, o.self, o.other)} :
             BinaryCall("-=", arg, o, r)

CallOr ==
    /\ Ready
    /\ \E arg \in {"a", "b"} :
         \E o \in {Operands(arg)} :
           \E r \in {Treap__or__(o.h, o.self, o.other)} :
             BinaryCall("|", arg, o, r)

CallIOr ==
    /\ Ready
    /\ \E arg \in {"a", "b"} :
         \E o \in {Operands(arg)} :
           \E r \in {Treap__ior__(o.h, o.self, o.other)} :
             BinaryCall("|=", arg, o, r)

CallAnd ==
    /\ Ready
    /\ \E arg \in {"a", "b"} :
         \E o \in {Operands(arg)} :
           \E r \in {Treap__and__(o.h, o.self, o.other)} :
             BinaryCall("&", arg, o, r)

CallIAnd ==
    /\ Ready
    /\ \E arg \in {"a", "b"} :
         \E o \in {Operands(arg)} :
           \E r \in {Treap__iand__(o.h, o.self, o.other)} :
             BinaryCall("&=", arg, o, r)

CallXor ==
    /\ Ready
    /\ \E arg \in {"a", "b"} :
         \E o \in {Operands(arg)} :
           \E r \in {Treap__xor__(o.h, o.self, o.other)} :
             BinaryCall("^", arg, o, r)

CallIXor ==
    /\ Ready
    /\ \E arg \in {"a", "b"} :
         \E o \in {Operands(arg)} :
           \E r \in {Treap__ixor__(o.h, o.self, o.other)} :
             BinaryCall("^=", arg, o, r)

\* TreapNode.__le__ on the two roots: not (self.copy() - other); None has
\* no copy.  The store afterwards, the value returned, and the exception
\* raised instead (None when it returned).
TreapNode__le__(h, self, other) ==
    IF self = NoNode
    THEN [h |-> h, val |-> None,
          exc |-> <<"AttributeError", "'NoneType' object has no attribute 'copy'">>]
    ELSE LET c == obj_copy(h, self)
         IN Only({[h |-> d.h,
                   val |-> IF d.n = NoNode THEN <<"True">> ELSE <<"False">>,
                   exc |-> None] :
                  d \in {obj_sub(c.h, c.n, other)}})

\* a <= b and a.issubset(b), which returns self <= other
CallLe ==
    /\ Ready
    /\ \E arg \in {"a", "b"} :
         \E o \in {Operands(arg)} :
           \E r \in {TreapNode__le__(o.h, o.self, o.other)} :
             /\ a' = TreeAt(r.h, o.self)
             /\ b' = TreeAt(r.h, o.b)
             /\ out' = Out("<=", <<arg>>, a, o.pre,
                           None, IF r.exc = None THEN r.val ELSE r.exc,
                           r.exc # None)
    /\ UNCHANGED sortVars

\* a.search(v): out.res is the subtree of the node returned
CallSearch ==
    /\ Ready
    /\ \E v \in Values :
         \E o \in {Operands("a")} :
           \E s \in {IF o.self # NoNode THEN obj_search(o.h, o.self, v)
                      ELSE Ret(o.h, o.self, TRUE)} :
             \E found \in {~s.err} :
               /\ a' = TreeAt(s.h, o.self)
               /\ out' = Out("search", v, a, None,
                             IF found THEN TreeAt(s.h, s.n) ELSE None,
                             IF found THEN None
                             ELSE <<"ValueError", "{value} not in treap">>,
                             ~found)
    /\ UNCHANGED <<b, sortVars>>

\* a.max_() and a.min_(): out.res is the subtree of the node returned
CallMax ==
    /\ Ready
    /\ \E o \in {Operands("a")} :
         out' = IF o.self # NoNode
                THEN Out("max", <<>>, a, None,
                         TreeAt(o.h, obj_max_(o.h, o.self)), None, FALSE)
                ELSE Out("max", <<>>, a, None, None,
                         <<"ValueError", "empty treap has no max">>, TRUE)
    /\ UNCHANGED <<a, b, sortVars>>

CallMin ==
    /\ Ready
    /\ \E o \in {Operands("a")} :
         out' = IF o.self # NoNode
                THEN Out("min", <<>>, a, None,
                         TreeAt(o.h, obj_min_(o.h, o.self)), None, FALSE)
                ELSE Out("min", <<>>, a, None, None,
                         <<"ValueError", "empty treap has no min">>, TRUE)
    /\ UNCHANGED <<a, b, sortVars>>

\* a.delete(v): self.root = self.root.delete(value) when the treap has
\* nodes, and then the raise that ends every call
CallDelete ==
    /\ Ready
    /\ \E v \in Values :
         \E o \in {Operands("a")} :
           \E d \in {IF o.self # NoNode THEN obj_delete(o.h, o.self, v)
                      ELSE Ret(o.h, o.self, FALSE)} :
             /\ a' = TreeAt(d.h, IF d.err THEN o.self ELSE d.n)
             /\ out' = Out("delete", v, a, None, None,
                           <<"ValueError", "{value} not in treap">>, TRUE)
    /\ UNCHANGED <<b, sortVars>>

\* a.isdisjoint(b) and a.isdisjoint(a):
\* not self or not other or self.root.isdisjoint(other.root)
CallIsDisjoint ==
    /\ Ready
    /\ \E arg \in {"a", "b"} :
         \E o \in {Operands(arg)} :
           IF o.self = NoNode \/ o.other = NoNode
           THEN /\ out' = Out("isdisjoint", <<arg>>, a, o.pre,
                              None, <<"True">>, FALSE)
                /\ UNCHANGED <<a, b>>
           ELSE \E r \in obj_isdisjoint(o.h, o.self, o.other) :
                  /\ a' = TreeAt(r.h, o.self)
                  /\ b' = TreeAt(r.h, o.b)
                  /\ out' = Out("isdisjoint", <<arg>>, a, o.pre, None,
                                (IF r.res THEN <<"True">> ELSE <<"False">>),
                                FALSE)
    /\ UNCHANGED sortVars

\* a.root = a.root.delete_node(n), where n is the k-th node in order of the
\* tree a or of the tree b (a node that is not in a); out.arg is the tree
\* and k
CallDeleteNode ==
    /\ Ready
    /\ ~IsNone(a)
    /\ \E arg \in {"a", "b"} :
         \E o \in {Operands(arg)} :
           \E nodes \in {NodesOf(o.h, o.other)} :
             \E k \in DOMAIN nodes :
               \E r \in {obj_delete_node(o.h, o.self, nodes[k])} :
                 /\ a' = TreeAt(r.h, IF r.err THEN o.self ELSE r.n)
                 /\ b' = TreeAt(r.h, o.b)
                 /\ out' = Out("delete_node", <<arg, k>>, a, b, None,
                               IF r.err THEN <<"ValueError", "node not in treap">>
                               ELSE None,
                               r.err)
    /\ UNCHANGED sortVars

\* a.insert(v) and b.insert(v), for the operands of the calls
PairInsert ==
    /\ Ready
    /\ len(a) + len(b) < MaxPair
    /\ \E v \in Values, p \in Priorities :
         \/ a' = Treap_insert(a, v, p) /\ b' = b
         \/ b' = Treap_insert(b, v, p) /\ a' = a
    /\ out' = NoOut
    /\ UNCHANGED sortVars

CallNext ==
    \/ PairInsert \/ Discard
    \/ CallAdd \/ CallIAdd \/ CallSub \/ CallISub \/ CallOr \/ CallIOr
    \/ CallAnd \/ CallIAnd \/ CallXor \/ CallIXor
    \/ CallLe \/ CallSearch \/ CallMax \/ CallMin \/ CallDelete
    \/ CallIsDisjoint \/ CallDeleteNode

CallSpec == Init /\ [][CallNext]_vars

\* ---- isdisjoint on trees of more values ----
\* isdisjoint splits one operand at a value of the other, which lies strictly
\* between two values of the split tree only when there are three values.
WideValues == {<<v>> : v \in 1..MaxKey}

\* a.insert(v) and b.insert(v)
WideInsert ==
    /\ Ready
    /\ len(a) + len(b) < MaxPair
    /\ \E v \in WideValues, p \in Priorities :
         \/ a' = Treap_insert(a, v, p) /\ b' = b
         \/ b' = Treap_insert(b, v, p) /\ a' = a
    /\ out' = NoOut
    /\ UNCHANGED sortVars

DisjointNext == WideInsert \/ Discard \/ CallIsDisjoint

DisjointSpec == Init /\ [][DisjointNext]_vars


\* ------------------------------------------------------------ heapq
\* x < y for heapify and heappop, y < x for their _max forms
HeapLess(mx, x, y) == IF mx THEN Lt(y, x) ELSE Lt(x, y)

\* _siftdown and _siftdown_max; positions count from 0 as in the list
RECURSIVE SiftDownLoop(_, _, _, _, _)
SiftDownLoop(mx, h, startpos, pos, newitem) ==
    IF pos > startpos THEN
        LET parentpos == (pos - 1) \div 2
            parent == h[parentpos + 1]
        IN IF HeapLess(mx, newitem, parent)
           THEN SiftDownLoop(mx, [h EXCEPT ![pos + 1] = parent],
                             startpos, parentpos, newitem)
           ELSE [h EXCEPT ![pos + 1] = newitem]
    ELSE [h EXCEPT ![pos + 1] = newitem]

siftdown(mx, h, startpos, pos) == SiftDownLoop(mx, h, startpos, pos, h[pos + 1])

\* the loop of _siftup and _siftup_max: <<heap, pos>> when it ends
RECURSIVE SiftUpLoop(_, _, _, _)
SiftUpLoop(mx, h, pos, childpos) ==
    IF childpos < Len(h) THEN
        LET rightpos == childpos + 1
            c == IF rightpos < Len(h)
                    /\ ~HeapLess(mx, h[childpos + 1], h[rightpos + 1])
                 THEN rightpos ELSE childpos
        IN SiftUpLoop(mx, [h EXCEPT ![pos + 1] = h[c + 1]], c, 2 * c + 1)
    ELSE <<h, pos>>

siftup(mx, h, pos) ==
    LET newitem == h[pos + 1]
        r == SiftUpLoop(mx, h, pos, 2 * pos + 1)
    IN siftdown(mx, [r[1] EXCEPT ![r[2] + 1] = newitem], pos, r[2])

\* heapify and _heapify_max: for i in reversed(range(n // 2)): _siftup(x, i)
RECURSIVE HeapifyFrom(_, _, _)
HeapifyFrom(mx, h, i) ==
    IF i < 0 THEN h ELSE HeapifyFrom(mx, siftup(mx, h, i), i - 1)

heapify(mx, h) == HeapifyFrom(mx, h, (Len(h) \div 2) - 1)

\* heappop and _heappop_max: <<the item returned, the heap left>>
heappop(mx, h) ==
    LET lastelt == h[Len(h)]
        rest == SubSeq(h, 1, Len(h) - 1)
    IN IF Len(rest) > 0
       THEN <<rest[1], siftup(mx, [rest EXCEPT ![1] = lastelt], 0)>>
       ELSE <<lastelt, rest>>

\* ------------------------------------------------------ the sort adapters
\* the key functions handed to the adapters: none, or v // 2
Keys == {"none", "half"}
KeyOf(k, v) == IF k = "half" THEN v \div 2 ELSE v

\* the tagging of treap_sort without the negated index under reverse
TreapTag_index_not_negated(k, rev, v, i) ==
    IF k = "none" /\ rev THEN <<v, i>>
    ELSE IF k = "none" THEN <<v>>
    ELSE <<KeyOf(k, v), i, v>>

\* the value treap_sort inserts for item v at index i
TreapTag(k, rev, v, i) ==
    IF k = "none" /\ rev THEN <<v, -i>>
    ELSE IF k = "none" THEN <<v>>
    ELSE IF rev THEN <<KeyOf(k, v), -i, v>>
    ELSE <<KeyOf(k, v), i, v>>

\* the item treap_sort yields for a value of the treap
TreapUntag(k, rev, t) == IF k = "none" THEN t[1] ELSE t[3]

\* the tagging of heap_sort without the negated index under reverse
HeapTag_index_not_negated(k, rev, v, i) ==
    IF k = "none" THEN <<v, i>>
    ELSE <<KeyOf(k, v), i, v>>

\* the entry heap_sort stores for item v at index i
HeapTag(k, rev, v, i) ==
    IF k = "none" THEN <<v, IF rev THEN -i ELSE i>>
    ELSE <<KeyOf(k, v), IF rev THEN -i ELSE i, v>>

\* heappop_2: the item of the entry popped
HeapUntag(k, t) == IF k = "none" THEN t[1] ELSE t[3]

\* next(it, stop) on the generator that treap_sort hands to Treap
NextValue(it) ==
    IF it < Len(items) THEN TreapTag(key, reverse, items[it + 1], it) ELSE Stop

\* the doctest of both modules
Doctest == <<1, 7, 8, 0, 4, 6, 2, 3, 5>>

RECURSIVE SeqsUpTo(_, _)
SeqsUpTo(S, n) ==
    IF n = 0 THEN {<<>>}
    ELSE LET shorter == SeqsUpTo(S, n - 1)
         IN shorter \cup {Append(sq, x) : sq \in shorter, x \in S}

SortInit ==
    /\ a = None
    /\ b = None
    /\ out = NoOut
    /\ \/ /\ items \in SeqsUpTo(0..MaxItem, MaxItems)
          /\ key \in Keys
          /\ reverse \in BOOLEAN
       \/ /\ items = Doctest
          /\ key = "none"
          /\ reverse = FALSE
    /\ pc = "start"
    /\ ctor = NoCtor
    /\ root = None
    /\ tout = <<>>
    /\ heap = <<>>
    /\ hout = <<>>

\* Treap.__init__: x = next(it, stop)
CtorFirst ==
    /\ pc = "start"
    /\ ctor' = [ctor EXCEPT !.x = NextValue(ctor.it), !.it = ctor.it + 1]
    /\ pc' = "loop"
    /\ UNCHANGED <<treapVars, items, key, reverse, root, tout, heap, hout>>

\* while x is not stop: submit self.insert(x) and next(it, stop)
CtorSubmit ==
    /\ pc = "loop"
    /\ ctor.x # Stop
    /\ ctor' = [ctor EXCEPT !.f_insert = "pending", !.f_next = "pending",
                            !.inserting = Append(ctor.inserting, ctor.x)]
    /\ pc' = "wait"
    /\ UNCHANGED <<treapVars, items, key, reverse, root, tout, heap, hout>>

\* a worker runs an insert task; the new node draws its priority; f_insert
\* is done when the task it names, the last one submitted, is
RunInsert ==
    /\ \E i \in DOMAIN ctor.inserting :
         /\ \E p \in Priorities :
              root' = Treap_insert(root, ctor.inserting[i], p)
         /\ ctor' = [ctor EXCEPT
                       !.f_insert = IF i = Len(ctor.inserting) THEN "done" ELSE @,
                       !.inserting = SubSeq(@, 1, i - 1) \o SubSeq(@, i + 1, Len(@))]
    /\ UNCHANGED <<treapVars, items, key, reverse, pc, tout, heap, hout>>

\* a worker runs next(it, stop)
RunNext ==
    /\ ctor.f_next = "pending"
    /\ ctor' = [ctor EXCEPT !.f_next = "done",
                            !.fetched = NextValue(ctor.it),
                            !.it = ctor.it + 1]
    /\ UNCHANGED <<treapVars, items, key, reverse, pc, root, tout, heap, hout>>

\* the loop body without f_insert.result(): only the fetch is awaited
CtorJoin_no_insert_wait ==
    /\ pc = "wait"
    /\ ctor.f_next = "done"
    /\ ctor' = [ctor EXCEPT !.x = ctor.fetched, !.fetched = Stop,
                            !.f_insert = "none", !.f_next = "none"]
    /\ pc' = "loop"
    /\ UNCHANGED <<treapVars, items, key, reverse, root, tout, heap, hout>>

\* f_insert.result(); x = f_next.result()
CtorJoin ==
    /\ pc = "wait"
    /\ ctor.f_insert = "done"
    /\ ctor.f_next = "done"
    /\ ctor' = [ctor EXCEPT !.x = ctor.fetched, !.fetched = Stop,
                            !.f_insert = "none", !.f_next = "none"]
    /\ pc' = "loop"
    /\ UNCHANGED <<treapVars, items, key, reverse, root, tout, heap, hout>>

\* the loop ends; treap_sort returns the iterator over the treap
CtorExit ==
    /\ pc = "loop"
    /\ ctor.x = Stop
    /\ pc' = "iter"
    /\ UNCHANGED <<treapVars, items, key, reverse, ctor, root, tout, heap, hout>>

\* the values treap_sort iterates over: the treap, reversed under reverse
TreapOrder == IF reverse THEN reversed_values(root) ELSE values(root)

\* the consumer takes the next item from treap_sort
TreapYield ==
    /\ pc = "iter"
    /\ Len(tout) < Len(TreapOrder)
    /\ tout' = Append(tout, TreapUntag(key, reverse, TreapOrder[Len(tout) + 1]))
    /\ UNCHANGED <<treapVars, items, key, reverse, pc, ctor, root, heap, hout>>

\* treap_sort is exhausted
TreapEnd ==
    /\ pc = "iter"
    /\ Len(tout) = Len(TreapOrder)
    /\ pc' = "heap"
    /\ UNCHANGED <<treapVars, items, key, reverse, ctor, root, tout, heap, hout>>

\* heap_sort on the same input: tag the items and heapify
HeapStart ==
    /\ pc = "heap"
    /\ heap' = heapify(reverse,
                       [i \in 1..Len(items) |->
                            HeapTag(key, reverse, items[i], i - 1)])
    /\ pc' = "pop"
    /\ UNCHANGED <<treapVars, items, key, reverse, ctor, root, tout, hout>>

\* the consumer takes the next item from heap_sort
HeapPop ==
    /\ pc = "pop"
    /\ Len(hout) < Len(items)
    /\ LET r == heappop(reverse, heap)
       IN /\ hout' = Append(hout, HeapUntag(key, r[1]))
          /\ heap' = r[2]
    /\ UNCHANGED <<treapVars, items, key, reverse, pc, ctor, root, tout>>

\* heap_sort is exhausted
HeapEnd ==
    /\ pc = "pop"
    /\ Len(hout) = Len(items)
    /\ pc' = "done"
    /\ UNCHANGED <<treapVars, items, key, reverse, ctor, root, tout, heap, hout>>

SortNext ==
    \/ CtorFirst \/ CtorSubmit \/ RunInsert \/ RunNext \/ CtorJoin \/ CtorExit
    \/ TreapYield \/ TreapEnd \/ HeapStart \/ HeapPop \/ HeapEnd

SortSpec == SortInit /\ [][SortNext]_vars

\* ------------------------------------------------------------ OrderedSet
\* a and b are the roots of two OrderedSet objects.

\* OrderedSet.insert with TreapNode.insert in place of TreapNode.add
OrderedSet_insert_as_Treap(rt, v, p) ==
    IF ~IsNone(rt) THEN insert(rt, v, p) ELSE TreapNode(v, p, None, None)

\* OrderedSet.insert: the root afterwards
OrderedSet_insert(rt, v, p) ==
    IF ~IsNone(rt) THEN add(rt, v, p) ELSE TreapNode(v, p, None, None)

\* OrderedSet(iterable): Treap.__init__ calls self.insert for every value in
\* turn; the roots it can end with, over the random() draws
RECURSIVE OrderedSet_init(_)
OrderedSet_init(sq) ==
    IF sq = <<>> THEN {None}
    ELSE {OrderedSet_insert(rt, sq[Len(sq)], p) :
              rt \in OrderedSet_init(SubSeq(sq, 1, Len(sq) - 1)), p \in Priorities}

\* OrderedSet.__add__: self.root.copy() and other.root.copy() raise
\* AttributeError when the root is None
OrderedSet__add__(h, self, other) ==
    IF self = NoNode \/ other = NoNode THEN Done(h, self, NoNode, TRUE)
    ELSE LET c1 == obj_copy(h, self)
             c2 == obj_copy(c1.h, other)
         IN Only({Done(r.h, self, r.n, r.err) : r \in {obj_or(c2.h, c1.n, c2.n)}})

\* OrderedSet.__iadd__: other.root.copy() raises AttributeError when the
\* root is None
OrderedSet__iadd__(h, self, other) ==
    IF other = NoNode THEN Done(h, self, NoNode, TRUE)
    ELSE LET c2 == obj_copy(h, other)
         IN Only({Done(r.h, r.n, r.n, r.err) : r \in {obj_or(c2.h, self, c2.n)}})

\* a = OrderedSet(sq), for the set a that holds nothing yet
SetConstructA ==
    /\ Ready
    /\ IsNone(a)
    /\ \E sq \in SeqsUpTo(Values, MaxPair) : a' \in OrderedSet_init(sq)
    /\ len(a') + len(b) <= MaxPair
    /\ out' = NoOut
    /\ UNCHANGED <<b, sortVars>>

\* a.insert(v) and b.insert(v)
SetInsert ==
    /\ Ready
    /\ len(a) + len(b) < MaxPair
    /\ \E v \in Values, p \in Priorities :
         \/ a' = OrderedSet_insert(a, v, p) /\ b' = b
         \/ b' = OrderedSet_insert(b, v, p) /\ a' = a
    /\ out' = NoOut
    /\ UNCHANGED sortVars

\* the operators of OrderedSet, its own and those it inherits from Treap;
\* extend returns self | other
SetPlus ==
    /\ Ready
    /\ \E arg \in {"a", "b"} :
         \E o \in {Operands(arg)} :
           \E r \in {OrderedSet__add__(o.h, o.self, o.other)} :
             BinaryCall("+", arg, o, r)

SetIPlus ==
    /\ Ready
    /\ \E arg \in {"a", "b"} :
         \E o \in {Operands(arg)} :
           \E r \in {OrderedSet__iadd__(o.h, o.self, o.other)} :
             BinaryCall("+=", arg, o, r)

SetOr ==
    /\ Ready
    /\ \E arg \in {"a", "b"} :
         \E o \in {Operands(arg)} :
           \E r \in {Treap__or__(o.h, o.self, o.other)} :
             BinaryCall("|", arg, o, r)

SetAnd ==
    /\ Ready
    /\ \E arg \in {"a", "b"} :
         \E o \in {Operands(arg)} :
           \E r \in {Treap__and__(o.h, o.self, o.other)} :
             BinaryCall("&", arg, o, r)

SetSub ==
    /\ Ready
    /\ \E arg \in {"a", "b"} :
         \E o \in {Operands(arg)} :
           \E r \in {Treap__sub__(o.h, o.self, o.other)} :
             BinaryCall("-", arg, o, r)

SetXor ==
    /\ Ready
    /\ \E arg \in {"a", "b"} :
         \E o \in {Operands(arg)} :
           \E r \in {Treap__xor__(o.h, o.self, o.other)} :
             BinaryCall("^", arg, o, r)

SetExtend ==
    /\ Ready
    /\ \E arg \in {"a", "b"} :
         \E o \in {Operands(arg)} :
           \E r \in {Treap__or__(o.h, o.self, o.other)} :
             BinaryCall("extend", arg, o, r)

\* the caller keeps the set an operator returned: a = a | b, b = a | b
Keep ==
    /\ out.op \in {"+", "|", "&", "-", "^", "extend"}
    /\ ~out.raised
    /\ \/ a' = out.res /\ b' = b
       \/ b' = out.res /\ a' = a
    /\ len(a') + len(b') <= MaxPair
    /\ out' = NoOut
    /\ UNCHANGED sortVars

SetNext ==
    \/ SetConstructA \/ SetInsert \/ AddA \/ DeleteA
    \/ SetPlus \/ SetIPlus \/ SetOr \/ SetAnd \/ SetSub \/ SetXor \/ SetExtend
    \/ Keep \/ Discard

SetSpec == Init /\ [][SetNext]_vars


\* ----------------------------------------------- vocabulary of the claims
\* how often x occurs in the sequence sq, and the set of its elements
Count(sq, x) == Cardinality({i \in DOMAIN sq : sq[i] = x})
Elems(sq) == {sq[i] : i \in DOMAIN sq}
NoDup(sq) == \A i, j \in DOMAIN sq : sq[i] = sq[j] => i = j
NonDecreasing(sq) == \A i \in 1..(Len(sq) - 1) : ~Lt(sq[i + 1], sq[i])

\* ------------------------------------------------------------ C1
RECURSIVE HeapOrdered(_)
HeapOrdered(t) ==
    \/ IsNone(t)
    \/ /\ IsNone(left(t)) \/ priority(t) <= priority(left(t))
       /\ IsNone(right(t)) \/ priority(t) <= priority(right(t))
       /\ HeapOrdered(left(t))
       /\ HeapOrdered(right(t))

\* C1: in every tree that insert, add, delete and the combinators return,
\* a node's priority is at most the priority of each of its children.
C1_HeapInvariant ==
    /\ HeapOrdered(a)
    /\ HeapOrdered(b)
    /\ HeapOrdered(out.res)

\* C1 is reached where it matters: + has merged two non-empty treaps into
\* one of MaxNodes nodes.
C1_Witness ==
    /\ out.op = "+"
    /\ ~IsNone(out.preA)
    /\ ~IsNone(out.preB)
    /\ len(out.res) = MaxNodes

\* ------------------------------------------------------------ C4
\* C4: Treap.delete(value) on a tree that contains value returns without
\* raising and removes exactly one node holding value.
C4_DeletePresentReturns ==
    (out.op = "delete" /\ Contains(out.preA, out.arg)) =>
        /\ ~out.raised
        /\ len(a) = len(out.preA) - 1
        /\ \A x \in Values :
             Count(values(a), x) =
                Count(values(out.preA), x) - (IF x = out.arg THEN 1 ELSE 0)

\* ------------------------------------------------------------ C5
\* C5 as stated: split(value) puts the values below value into left and the
\* values equal to or above value into right, and loses no node.
C5_SplitEqualRight ==
    out.op = "split" =>
        /\ \A x \in Elems(values(out.res)) : Lt(x, out.arg)
        /\ \A x \in Elems(values(out.res2)) : ~Lt(x, out.arg)
        /\ Iter(out.res) \o Iter(out.res2) = Iter(out.preA)

\* C5 as amended: split(value) puts the values below or equal to value into
\* left and the values above value into right (nodes equal to the pivot land
\* in left), and left and right together are the original nodes, in order,
\* without the pivot.
C5_SplitEqualLeft ==
    out.op = "split" =>
        /\ \A x \in Elems(values(out.res)) : ~Gt(x, out.arg)
        /\ \A x \in Elems(values(out.res2)) : Gt(x, out.arg)
        /\ Iter(out.res) \o Iter(out.res2) = Iter(out.preA)

\* a split at a value the tree holds, with nodes on both sides
C5_Witness ==
    /\ out.op = "split"
    /\ Contains(out.preA, out.arg)
    /\ ~IsNone(out.res)
    /\ ~IsNone(out.res2)

\* ------------------------------------------------------------ C6
\* C6: a & b holds exactly the values that occur in both a and b, each once.
C6_Intersection ==
    out.op = "&" =>
        \A x \in Values :
            Count(values(out.res), x) =
                (IF x \in Elems(values(out.preA)) /\ x \in Elems(values(out.preB))
                 THEN 1 ELSE 0)

\* ------------------------------------------------------------ C7
\* C7: a | b holds every value that occurs in a or in b exactly once, also
\* when an operand holds duplicates.
C7_Union ==
    out.op = "|" =>
        \A x \in Values :
            Count(values(out.res), x) =
                (IF x \in Elems(values(out.preA)) \/ x \in Elems(values(out.preB))
                 THEN 1 ELSE 0)

\* ------------------------------------------------------------ C8
\* C8: a - b is a without every node whose value occurs in b, the other
\* nodes kept in order; a - a is empty.
C8_Difference ==
    out.op = "-" =>
        LET Kept(x) == x \notin Elems(values(out.preB))
        IN /\ values(out.res) = SelectSeq(values(out.preA), Kept)
           /\ (values(out.preA) = values(out.preB) => IsNone(out.res))

\* a value that b holds goes twice from a, and another node of a stays
C8_Witness ==
    /\ out.op = "-"
    /\ \E x \in Elems(values(out.preB)) : Count(values(out.preA), x) >= 2
    /\ ~IsNone(out.res)

\* ------------------------------------------------------------ C9
\* C9: for duplicate-free a and b, a ^ b holds exactly the values that occur
\* in exactly one of them, len(a ^ b) = len(a - b) + len(b - a), and
\* a ^ a is empty.
C9_SymmetricDifference ==
    (out.op = "^" /\ NoDup(values(out.preA)) /\ NoDup(values(out.preB))) =>
        /\ \A x \in Values :
             Count(values(out.res), x) =
                (IF (x \in Elems(values(out.preA))) # (x \in Elems(values(out.preB)))
                 THEN 1 ELSE 0)
        /\ len(out.res) = len(Treap_op_sub(out.preA, out.preB))
                            + len(Treap_op_sub(out.preB, out.preA))
        /\ (values(out.preA) = values(out.preB) => IsNone(out.res))

\* duplicate-free operands that share a value and differ in another
C9_Witness ==
    /\ out.op = "^"
    /\ NoDup(values(out.preA))
    /\ NoDup(values(out.preB))
    /\ Elems(values(out.preA)) \cap Elems(values(out.preB)) # {}
    /\ ~IsNone(out.res)

\* ------------------------------------------------------------ C10
\* C10: a + b holds every value as often as a and b hold it together, so
\* len(a + b) = len(a) + len(b), and its in-order values do not decrease.
C10_MultisetAdd ==
    out.op = "+" =>
        /\ \A x \in Values :
             Count(values(out.res), x) =
                Count(values(out.preA), x) + Count(values(out.preB), x)
        /\ len(out.res) = len(out.preA) + len(out.preB)
        /\ NonDecreasing(values(out.res))

\* both operands hold the same value more than once between them
C10_Witness ==
    /\ out.op = "+"
    /\ \E x \in Elems(values(out.preA)) \cap Elems(values(out.preB)) :
          Count(values(out.res), x) >= 3
    /\ Cardinality(Elems(values(out.res))) >= 2

\* ------------------------------------------------------------ C2
\* item j comes before item i in the stable sort of items: its key is
\* smaller (larger under reverse), or the keys are equal and j is earlier
ComesBefore(j, i) ==
    LET kj == KeyOf(key, items[j])
        ki == KeyOf(key, items[i])
    IN \/ (IF reverse THEN kj > ki ELSE kj < ki)
       \/ (kj = ki /\ j < i)

\* the place of item i in the stable sort of items
Rank(i) == 1 + Cardinality({j \in DOMAIN items : ComesBefore(j, i)})

\* outp is items in stable sorted order
IsStableSortOfItems(outp) ==
    /\ Len(outp) = Len(items)
    /\ \A i \in DOMAIN items : outp[Rank(i)] = items[i]

\* C2: what treap_sort yields is the input ordered by key, ascending or,
\* under reverse, descending, equal keys in their original order; the
\* doctest input gives 0 .. 8.
C2_TreapSortStable ==
    pc \in {"heap", "pop", "done"} =>
        /\ IsStableSortOfItems(tout)
        /\ (items = Doctest => tout = <<0, 1, 2, 3, 4, 5, 6, 7, 8>>)

\* treap_sort has sorted, with a key and under reverse, an input in which
\* two different items share a key and a third has another key
C2_Witness ==
    /\ pc = "heap"
    /\ key = "half"
    /\ reverse
    /\ \E i, j, k \in DOMAIN items :
          /\ i < j
          /\ items[i] # items[j]
          /\ KeyOf(key, items[i]) = KeyOf(key, items[j])
          /\ KeyOf(key, items[k]) # KeyOf(key, items[i])

RECURSIVE StrictLeft(_)
StrictLeft(t) ==
    \/ IsNone(t)
    \/ /\ \A x \in Elems(values(left(t))) : Lt(x, value(t))
       /\ StrictLeft(left(t))
       /\ StrictLeft(right(t))

\* no value in the left subtree of a node follows the node's value and no
\* value in its right subtree precedes it
RECURSIVE Ordered(_)
Ordered(t) ==
    \/ IsNone(t)
    \/ /\ \A x \in Elems(values(left(t))) : ~Gt(x, value(t))
       /\ \A x \in Elems(values(right(t))) : ~Lt(x, value(t))
       /\ Ordered(left(t))
       /\ Ordered(right(t))

\* C13 as stated: after any sequence of insert and delete calls every value
\* in the left subtree of a node strictly precedes the node's value, so a
\* value equal to the node's value occurs only in its right subtree.
C13_EqualOnlyRight ==
    /\ StrictLeft(a)
    /\ StrictLeft(b)

\* C13 as amended: after any sequence of calls no value in the left subtree
\* of a node follows the node's value and no value in its right subtree
\* precedes it; a value equal to the node's value may sit on either side.
C13_OrderWeak ==
    /\ Ordered(a)
    /\ Ordered(b)
    /\ Ordered(out.res)

\* delete has left a tree in which a value equal to a node's value sits in
\* the node's left subtree
C13_Witness ==
    /\ out.op = "delete"
    /\ len(a) >= 2
    /\ ~StrictLeft(a)

\* ------------------------------------------------------------ C18
\* the value of the item at iteration position i (counted from 0)
ItemAt(i) == TreapTag(key, reverse, items[i + 1], i)

\* what holds while the constructor runs: at most one insert task is in
\* flight; it inserts the item that follows the items already inserted; a
\* fetch in flight beside it fetches the item right after that one; and at
\* the end every item has been inserted
CtorOverlap ==
    /\ Len(ctor.inserting) <= 1
    /\ ctor.inserting # <<>> =>
          /\ len(root) < Len(items)
          /\ ctor.inserting[1] = ItemAt(len(root))
    /\ (ctor.f_next = "pending" /\ ctor.inserting # <<>>) =>
          ctor.it = len(root) + 1
    /\ ctor.f_next = "pending" => ctor.f_insert # "none"
    /\ pc \in {"iter", "heap", "pop", "done"} => len(root) = Len(items)

\* a step that changes the treap inserts the next item of the input, once
InsertsInOrder ==
    root' # root =>
        /\ len(root) < Len(items)
        /\ \E p \in Priorities :
             root' = Treap_insert(root, ItemAt(len(root)), p)

\* C18: while Treap.__init__ runs on the two-worker executor at most one
\* insert task is in flight, the fetch of the next item overlaps only the
\* insert of the item fetched just before it, and the items are inserted in
\* the iteration order of the input, each exactly once.
C18_ConstructorOverlap == [](CtorOverlap) /\ [][InsertsInOrder]_vars

\* the insert of the second item and the fetch of the third are both in
\* flight
C18_Witness ==
    /\ pc = "wait"
    /\ ctor.f_insert = "pending"
    /\ ctor.f_next = "pending"
    /\ len(root) = 1
    /\ Len(items) >= 3

\* ------------------------------------------------------------ C11
\* C11 as stated: for any tree a, also one that holds duplicate values,
\* a | a and a & a have the in-order values of a.
C11_Idempotent ==
    (out.op \in {"|", "&"} /\ out.arg = <<"a">>) =>
        values(out.res) = values(out.preA)

\* C11 as amended: for any tree a that holds no value twice, a | a and
\* a & a have the in-order values of a.
C11_IdempotentNoDup ==
    (out.op \in {"|", "&"} /\ out.arg = <<"a">> /\ NoDup(values(out.preA))) =>
        values(out.res) = values(out.preA)

\* a & a on a duplicate-free tree of three nodes or more
C11_Witness ==
    /\ out.op = "&"
    /\ out.arg = <<"a">>
    /\ NoDup(values(out.preA))
    /\ len(out.preA) >= 2
    /\ len(out.res) >= 2

\* ------------------------------------------------------------ C12
\* C12: for any trees a and b, an empty one included, a <= b (and
\* a.issubset(b)) returns a boolean, true exactly when every value of a
\* occurs in b, and never fails with an error.
C12_SubsetTotal ==
    out.op = "<=" =>
        /\ ~out.raised
        /\ out.res2 = IF Elems(values(out.preA)) \subseteq Elems(values(out.preB))
                     THEN <<"True">> ELSE <<"False">>

\* ------------------------------------------------------------ C14
InPlace == {"+=", "-=", "|=", "&=", "^="}
NotInPlace == {"+", "-", "|", "&", "^"}

\* the tree the right operand of the last call holds now
RightOperand == IF out.arg = <<"a">> THEN a ELSE b

\* C14 as stated: +, |, &, ^ and - leave both operands as they were, and
\* +=, |=, &=, ^= and -= leave the right operand as it was (values, shape
\* and priorities), also when both operands are the same tree.
C14_OperandsUnchanged ==
    /\ out.op \in NotInPlace => (a = out.preA /\ RightOperand = out.preB)
    /\ out.op \in InPlace => RightOperand = out.preB

\* C14 as amended: +, |, &, ^ and - leave both operands as they were, also
\* when both are the same tree, and +=, |=, &=, ^= and -= leave the right
\* operand as it was when it is another tree than the left operand.
C14_OperandsUnchangedApart ==
    /\ out.op \in NotInPlace => (a = out.preA /\ RightOperand = out.preB)
    /\ (out.op \in InPlace /\ out.arg = <<"b">>) => b = out.preB

\* a -= b has taken nodes out of a, with a b of two nodes or more
C14_Witness ==
    /\ out.op = "-="
    /\ out.arg = <<"b">>
    /\ len(a) < len(out.preA)
    /\ len(b) >= 2


\* ---- C16: the queries of an empty tree ----

\* the error an empty container raises, as far as the code tells it apart
\* from the error of a value that is not found: both are ValueError, and the
\* message is the only difference
IsEmptyError(e) ==
    \/ e = <<"ValueError", "empty treap has no max">>
    \/ e = <<"ValueError", "empty treap has no min">>

\* C16: on an empty tree, search, delete, min and max each fail with the
\* empty-container error, not with the not-found error and not by returning,
\* and the tree is still empty afterwards.
C16_EmptyError ==
    (out.op \in {"search", "delete", "min", "max"} /\ IsNone(out.preA))
        => /\ out.raised
           /\ IsEmptyError(out.res2)
           /\ IsNone(a)



\* ---- C17: an empty operand ----

\* sq holds every value of pre once, in order
OnceEach(sq, pre) ==
    /\ NoDup(sq)
    /\ NonDecreasing(sq)
    /\ Elems(sq) = Elems(pre)

\* empty & a and a & empty are empty, and a.isdisjoint(empty) and
\* empty.isdisjoint(a) are True
EmptyAndDisjoint ==
    /\ (out.op = "&" /\ (IsNone(out.preA) \/ IsNone(out.preB)))
           => ~out.raised /\ IsNone(out.res)
    /\ (out.op = "isdisjoint" /\ (IsNone(out.preA) \/ IsNone(out.preB)))
           => ~out.raised /\ out.res2 = <<"True">>

\* C17 as stated: for any tree a and an empty tree, a | empty has the
\* in-order values of a, also when a holds duplicates; empty & a is empty;
\* isdisjoint of a and an empty tree is true in either operand order.
C17_EmptyOperand ==
    /\ (out.op = "|" /\ IsNone(out.preB))
           => ~out.raised /\ values(out.res) = values(out.preA)
    /\ EmptyAndDisjoint

\* C17 amended: a | empty holds every value of a once, in order, so it has
\* the in-order values of a exactly when a holds no value twice; empty & a is
\* empty; isdisjoint of a and an empty tree is true in either operand order.
C17_EmptyOperandOnce ==
    /\ (out.op = "|" /\ IsNone(out.preB))
           => /\ ~out.raised
              /\ OnceEach(values(out.res), values(out.preA))
              /\ (values(out.res) = values(out.preA)) = NoDup(values(out.preA))
    /\ EmptyAndDisjoint

\* an empty tree was intersected with a tree of two values and gave the
\* empty tree
C17_Witness ==
    /\ out.op = "&"
    /\ IsNone(out.preA)
    /\ Cardinality(Elems(values(out.preB))) = 2
    /\ IsNone(out.res)



\* ---- C19: isdisjoint as a query ----

\* the answer of isdisjoint is True exactly when the operands share no value
IsDisjointAnswer ==
    out.op = "isdisjoint"
        => /\ ~out.raised
           /\ (out.res2 = <<"True">>)
                  = (Elems(values(out.preA)) \cap Elems(values(out.preB)) = {})

\* C19: a.isdisjoint(b) returns true exactly when a and b share no value,
\* and afterwards a and b hold the same in-order value sequences as before
\* the call.
C19_IsDisjointPure ==
    /\ IsDisjointAnswer
    /\ out.op = "isdisjoint"
           => /\ values(a) = values(out.preA)
              /\ out.arg = <<"b">> => values(b) = values(out.preB)



\* ---- C20: delete_node ----

RemoveAt(sq, k) == SubSeq(sq, 1, k - 1) \o SubSeq(sq, k + 1, Len(sq))

\* C20: delete_node(n) on the root of a treap that contains the node n
\* removes exactly that node, wherever it sits among the nodes of equal
\* value, keeps every other node, and raises only when n is not a node of
\* the tree.  The nodes are compared in order by value and priority.
C20_DeleteNode ==
    out.op = "delete_node"
        => /\ out.raised => out.arg[1] = "b"
           /\ out.arg[1] = "a"
                  => Iter(a) = RemoveAt(Iter(out.preA), out.arg[2])



\* ---- C15: OrderedSet holds no value twice ----

\* C15: after construction from any sequence and after any sequence of
\* insert, add, delete, +, +=, |, &, -, ^ and extend calls on OrderedSets,
\* no two nodes of a set hold equal values: of the two sets and of the set
\* an operator returned.
C15_NoDuplicates ==
    /\ NoDup(values(a))
    /\ NoDup(values(b))
    /\ NoDup(values(out.res))

\* a | b was called on two sets of two values that share a value
C15_Witness ==
    /\ out.op \in {"|", "+", "extend"}
    /\ ~out.raised
    /\ out.arg = <<"b">>
    /\ Len(values(out.preA)) = 2
    /\ Elems(values(out.preA)) \cap Elems(values(out.preB)) # {}
    /\ Elems(values(out.res)) = Elems(values(out.preA)) \cup Elems(values(out.preB))


====
